---- MODULE Spec2Model ----
(***************************************************************************)
(* claude-color: the APCA contrast evaluation core (src/lib/apca.ts) and   *)
(* the check_contrast tool of the MCP server.                              *)
(*                                                                         *)
(* Numbers.  An Lc score is a JavaScript number.  The model keeps scores   *)
(* in fixed point: an unrounded score is an integer count of 1/Scale Lc    *)
(* points (Scale = 20: steps of 0.05, so every odd count lies exactly on a *)
(* one-decimal rounding half).  A value the code has rounded to one        *)
(* decimal is an integer count of tenths.  Thresholds are whole Lc points. *)
(***************************************************************************)
EXTENDS Integers, Sequences, FiniteSets, TLC

VARIABLES foreground, background, options, pc, result, before, minimum,
          server, toolInput, request, response

vars == <<foreground, background, options, pc, result, before, minimum,
          server, toolInput, request, response>>

\* ------------------------------------------------------------------ bounds
\* Steps per Lc point of an unrounded score.
Scale == 20
\* Largest magnitude of a score, in Lc points ("0-108 range typical").
MaxLc == 108
\* Largest font size, in px, handed to getMinimumLc directly.
MaxFontSize == 40

\* ------------------------------------------------------------------- types
UseCase == {"body-text", "large-text", "ui-component", "non-text",
            "placeholder", "disabled"}

FontWeight == {"normal", "bold"}

\* A colour is modelled by its tone: its lightness in 1/Scale Lc points.
Colour == 0 .. (MaxLc * Scale)

\* A string that is no recognized colour notation.
BadColour == -1

\* Background tones of the calls made against the darkest foreground when
\* not every score is tried.
DefaultsColours == {0, 15 * Scale, 45 * Scale, 60 * Scale, 75 * Scale - 1,
                    75 * Scale, MaxLc * Scale}

\* Font sizes used in calls of checkContrast (the sizes the tests call with).
CallFontSizes == {16, 24}

NoResult == [kind |-> "none"]

Abs(x) == IF x < 0 THEN -x ELSE x

\* floor(num / den + 1/2) for den > 0: the nearest integer, halves toward
\* +infinity.
RoundHalfUp(num, den) == (2 * num + den) \div (2 * den)

\* Math.round(x * 10) / 10 for x = s / Scale, as a count of tenths.
\* Math.round rounds halves toward +infinity, for negative x too.
MathRound1(s) == RoundHalfUp(10 * s, Scale)

\* x.toFixed(1) for x = s / Scale >= 0, as a count of tenths: the nearest
\* tenth, the larger one on a tie.
ToFixed1(s) == RoundHalfUp(10 * s, Scale)

\* x.toFixed(0) for x = s / Scale >= 0: the nearest integer, the larger one
\* on a tie.
ToFixed0(s) == RoundHalfUp(s, Scale)

\* ------------------------------------------------------ external primitive
\* calcAPCA(foreground, background) of apca-w3: the signed score, in
\* 1/Scale Lc points; positive for a dark foreground on a light background.
\* Modelled antisymmetric: calcAPCA(bg, fg) = -calcAPCA(fg, bg).
calcAPCA(fg, bg) == bg - fg

\* calcAPCA fails when either string is no recognized colour notation.
calcAPCAFails(fg, bg) == fg \notin Colour \/ bg \notin Colour

\* --------------------------------------------------------- threshold policy
USE_CASE_THRESHOLDS ==
    [u \in UseCase |->
        CASE u = "body-text"    -> 75
          [] u = "large-text"   -> 60
          [] u = "ui-component" -> 60
          [] u = "non-text"     -> 45
          [] u = "placeholder"  -> 45
          [] u = "disabled"     -> 45]

\* The value of a property lookup that finds no such key.
Undefined == "undefined"

\* USE_CASE_THRESHOLDS[useCase]: a key the object does not have gives
\* undefined.
thresholdOf(useCase) ==
    IF useCase \in DOMAIN USE_CASE_THRESHOLDS
    THEN USE_CASE_THRESHOLDS[useCase]
    ELSE Undefined

\* Mutant: the size and weight adjustment is applied before the use case is
\* looked at.
Mutant_getMinimumLc_AdjustAll(useCase, fontSize, fontWeight) ==
    IF fontSize >= 24 \/ fontWeight = "bold"
    THEN 60
    ELSE thresholdOf(useCase)

\* Mutant: the large-text boundary is exclusive.
Mutant_getMinimumLc_StrictLarge(useCase, fontSize, fontWeight) ==
    IF useCase # "body-text"
    THEN thresholdOf(useCase)
    ELSE IF fontSize > 24 \/ fontWeight = "bold" THEN 60 ELSE 75

\* Mutant: disabled states need only Lc 30.
Mutant_getMinimumLc_Disabled30(useCase, fontSize, fontWeight) ==
    IF useCase = "disabled"
    THEN 30
    ELSE IF useCase # "body-text"
    THEN thresholdOf(useCase)
    ELSE IF fontSize >= 24 \/ fontWeight = "bold" THEN 60 ELSE 75

getMinimumLc(useCase, fontSize, fontWeight) ==
    IF useCase # "body-text"
    THEN thresholdOf(useCase)
    ELSE LET isLarge == fontSize >= 24
             isBold  == fontWeight = "bold"
         IN  IF isLarge \/ isBold THEN 60 ELSE 75

\* ------------------------------------------------------------------ rating
\* lcAbsolute is the unrounded magnitude, in 1/Scale Lc points.
\* Mutant: the AAA boundary is exclusive.
Mutant_getRating_StrictAAA(lcAbsolute) ==
    IF lcAbsolute > 90 * Scale THEN "AAA"
    ELSE IF lcAbsolute >= 75 * Scale THEN "AA"
    ELSE IF lcAbsolute >= 60 * Scale THEN "A"
    ELSE "fail"

getRating(lcAbsolute) ==
    IF lcAbsolute >= 90 * Scale THEN "AAA"
    ELSE IF lcAbsolute >= 75 * Scale THEN "AA"
    ELSE IF lcAbsolute >= 60 * Scale THEN "A"
    ELSE "fail"

\* ---------------------------------------------------------- recommendation
\* The message is kept as its template and the values filled into it.
\* Mutant: no recommendation when the deficit rounds to zero points.
Mutant_getRecommendation_NullOnSmallDeficit(passes, lcAbsolute, minimumLc, useCase) ==
    LET deficit == minimumLc * Scale - lcAbsolute
    IN  IF passes \/ ToFixed0(deficit) = 0 THEN [kind |-> "null"]
        ELSE IF lcAbsolute < 15 * Scale
        THEN [kind    |-> "too-low",
              current |-> ToFixed1(lcAbsolute),
              need    |-> minimumLc,
              useCase |-> useCase]
        ELSE IF lcAbsolute < 45 * Scale
        THEN [kind    |-> "decorative",
              points  |-> ToFixed0(deficit),
              useCase |-> useCase]
        ELSE [kind    |-> "increase",
              points  |-> ToFixed0(deficit)]

\* Mutant: the lowest band includes magnitude 15.
Mutant_getRecommendation_Band15(passes, lcAbsolute, minimumLc, useCase) ==
    IF passes THEN [kind |-> "null"]
    ELSE LET deficit == minimumLc * Scale - lcAbsolute
         IN  IF lcAbsolute <= 15 * Scale
             THEN [kind    |-> "too-low",
                   current |-> ToFixed1(lcAbsolute),
                   need    |-> minimumLc,
                   useCase |-> useCase]
             ELSE IF lcAbsolute < 45 * Scale
             THEN [kind    |-> "decorative",
                   points  |-> ToFixed0(deficit),
                   useCase |-> useCase]
             ELSE [kind    |-> "increase",
                   points  |-> ToFixed0(deficit)]

getRecommendation(passes, lcAbsolute, minimumLc, useCase) ==
    IF passes THEN [kind |-> "null"]
    ELSE LET deficit == minimumLc * Scale - lcAbsolute
         IN  IF lcAbsolute < 15 * Scale
             THEN [kind    |-> "too-low",
                   current |-> ToFixed1(lcAbsolute),
                   need    |-> minimumLc,
                   useCase |-> useCase]
             ELSE IF lcAbsolute < 45 * Scale
             THEN [kind    |-> "decorative",
                   points  |-> ToFixed0(deficit),
                   useCase |-> useCase]
             ELSE [kind    |-> "increase",
                   points  |-> ToFixed0(deficit)]

\* ----------------------------------------------------------- checkContrast
\* Mutant: a score of zero is classified light-on-dark.
Mutant_polarityOf_StrictZero(lc) ==
    IF lc > 0 THEN "dark-on-light" ELSE "light-on-dark"

\* Mutant: the threshold itself does not pass.
Mutant_passesOf_Strict(lcAbsolute, minimumLc) == lcAbsolute > minimumLc * Scale

polarityOf(lc) == IF lc >= 0 THEN "dark-on-light" ELSE "light-on-dark"

passesOf(lcAbsolute, minimumLc) == lcAbsolute >= minimumLc * Scale

\* Mutant: an omitted font size counts as large text.
Mutant_destructure_LargeDefault(opts) ==
    [fontSize   |-> IF "fontSize" \in DOMAIN opts THEN opts.fontSize ELSE 24,
     fontWeight |-> IF "fontWeight" \in DOMAIN opts THEN opts.fontWeight
                    ELSE "normal",
     useCase    |-> IF "useCase" \in DOMAIN opts THEN opts.useCase
                    ELSE "body-text"]

\* const { fontSize = 16, fontWeight = 'normal', useCase = 'body-text' }
\*   = options;  options itself defaults to {}.
destructure(opts) ==
    [fontSize   |-> IF "fontSize" \in DOMAIN opts THEN opts.fontSize ELSE 16,
     fontWeight |-> IF "fontWeight" \in DOMAIN opts THEN opts.fontWeight
                    ELSE "normal",
     useCase    |-> IF "useCase" \in DOMAIN opts THEN opts.useCase
                    ELSE "body-text"]

\* Mutant: the failure of calcAPCA is caught and a result for a fallback
\* colour pair (score 0, default options) is returned.
Mutant_onPrimitiveFailure_Fallback(err) ==
    [kind           |-> "ok",
     lc             |-> 0,
     lcAbsolute     |-> 0,
     passes         |-> FALSE,
     minimumLc      |-> 75,
     polarity       |-> "dark-on-light",
     recommendation |-> [kind |-> "too-low", current |-> 0, need |-> 75,
                         useCase |-> "body-text"],
     rating         |-> "fail"]

\* The call of calcAPCA is in no try block: its error leaves checkContrast
\* as it is, before anything else is computed.
onPrimitiveFailure(err) == [kind |-> "threw", error |-> err]

\* Mutant: the magnitude is rounded to one decimal first, and passes,
\* rating and recommendation are computed from the rounded value.
Mutant_checkContrastReturn_RoundFirst(fg, bg, options_) ==
    LET opts       == destructure(options_)
        lc         == calcAPCA(fg, bg)
        lcAbsolute == (MathRound1(Abs(lc)) * Scale) \div 10
        minimumLc  == getMinimumLc(opts.useCase, opts.fontSize, opts.fontWeight)
        passes     == passesOf(lcAbsolute, minimumLc)
    IN  [kind           |-> "ok",
         lc             |-> MathRound1(lc),
         lcAbsolute     |-> MathRound1(Abs(lc)),
         passes         |-> passes,
         minimumLc      |-> minimumLc,
         polarity       |-> polarityOf(lc),
         recommendation |->
             getRecommendation(passes, lcAbsolute, minimumLc, opts.useCase),
         rating         |-> getRating(lcAbsolute)]

checkContrastReturn(fg, bg, options_) ==
    LET opts       == destructure(options_)
        lc         == calcAPCA(fg, bg)
        lcAbsolute == Abs(lc)
        polarity   == polarityOf(lc)
        minimumLc  == getMinimumLc(opts.useCase, opts.fontSize, opts.fontWeight)
        passes     == passesOf(lcAbsolute, minimumLc)
        rating     == getRating(lcAbsolute)
        recommendation ==
            getRecommendation(passes, lcAbsolute, minimumLc, opts.useCase)
    IN  [kind           |-> "ok",
         lc             |-> MathRound1(lc),
         lcAbsolute     |-> MathRound1(lcAbsolute),
         passes         |-> passes,
         minimumLc      |-> minimumLc,
         polarity       |-> polarity,
         recommendation |-> recommendation,
         rating         |-> rating]

checkContrast(fg, bg, options_) ==
    IF calcAPCAFails(fg, bg)
    THEN onPrimitiveFailure("ColorParseError")
    ELSE checkContrastReturn(fg, bg, options_)

\* ------------------------------------------------------- the core, stepwise
Options == [fontSize : CallFontSizes, fontWeight : FontWeight, useCase : UseCase]

\* A call of checkContrast about to be made: every score from -MaxLc to
\* MaxLc occurs once (one of the two colours is the darkest tone), and
\* either colour may be unrecognized.
Init ==
    /\ foreground \in Colour \cup {BadColour}
    /\ background \in (IF foreground = 0 THEN Colour \cup {BadColour}
                       ELSE IF foreground = BadColour THEN {0, BadColour}
                       ELSE {0})
    /\ options \in Options
    /\ pc = "call"
    /\ result = NoResult
    /\ before = NoResult
    /\ minimum = 0
    /\ server = "idle"
    /\ toolInput = NoResult
    /\ request = NoResult
    /\ response = NoResult

CheckContrast ==
    /\ pc = "call"
    /\ result' = checkContrast(foreground, background, options)
    /\ pc' = IF result'.kind = "ok" THEN "returned" ELSE "threw"
    /\ UNCHANGED <<foreground, background, options, before, minimum,
                   server, toolInput, request, response>>

\* The caller repeats the call with foreground and background exchanged.
SwapColours ==
    /\ pc = "returned"
    /\ before = NoResult
    /\ before' = result
    /\ foreground' = background
    /\ background' = foreground
    /\ result' = NoResult
    /\ pc' = "call"
    /\ UNCHANGED <<options, minimum, server, toolInput, request, response>>

\* After a call that failed, the caller makes a later call with
\* recognized colours.
CallAgain ==
    /\ pc = "threw"
    /\ before = NoResult
    /\ before' = result
    /\ foreground' = 0
    /\ background' \in DefaultsColours
    /\ result' = NoResult
    /\ pc' = "call"
    /\ UNCHANGED <<options, minimum, server, toolInput, request, response>>

Next == CheckContrast \/ SwapColours \/ CallAgain

Spec == Init /\ [][Next]_vars

\* ------------------------------------- checkContrast with options left out
OptionKeys == {"fontSize", "fontWeight", "useCase"}

\* Options with any of the fields left out; all left out is the omitted
\* options argument.
PartialOptions == {[k \in D |-> full[k]] : full \in Options, D \in SUBSET OptionKeys}

InitDefaults ==
    /\ foreground = 0
    /\ background \in DefaultsColours
    /\ options \in PartialOptions
    /\ pc = "call"
    /\ result = NoResult
    /\ before = NoResult
    /\ minimum = 0
    /\ server = "idle"
    /\ toolInput = NoResult
    /\ request = NoResult
    /\ response = NoResult

\* ------------------------------------------------- getMinimumLc on its own
\* Values a caller whose types are not checked may pass: one string outside
\* each union type.
OtherUseCase == "heading"

OtherFontWeight == "semibold"

MinOptions == [fontSize : 0 .. MaxFontSize,
               fontWeight : FontWeight \cup {OtherFontWeight},
               useCase : UseCase \cup {OtherUseCase}]

InitMin ==
    /\ options \in MinOptions
    /\ pc = "min-call"
    /\ minimum = 0
    /\ foreground = 0
    /\ background = 0
    /\ result = NoResult
    /\ before = NoResult
    /\ server = "idle"
    /\ toolInput = NoResult
    /\ request = NoResult
    /\ response = NoResult

GetMinimumLc ==
    /\ pc = "min-call"
    /\ minimum' = getMinimumLc(options.useCase, options.fontSize,
                               options.fontWeight)
    /\ pc' = "min-returned"
    /\ UNCHANGED <<foreground, background, options, result, before,
                   server, toolInput, request, response>>

NextMin == GetMinimumLc

SpecMin == InitMin /\ [][NextMin]_vars

\* --------------------------------------------------- the check_contrast tool
\* JSON.stringify(value, null, 2) of an object: its properties in insertion
\* order, each a <<key, value>> pair.
JSONstringifyResult(r) ==
    << <<"lc", r.lc>>, <<"lcAbsolute", r.lcAbsolute>>, <<"passes", r.passes>>,
       <<"minimumLc", r.minimumLc>>, <<"polarity", r.polarity>>,
       <<"recommendation", r.recommendation>>, <<"rating", r.rating>> >>

JSONstringifyArgs(a) ==
    << <<"foreground", a.foreground>>, <<"background", a.background>>,
       <<"fontSize", a.fontSize>>, <<"fontWeight", a.fontWeight>>,
       <<"useCase", a.useCase>> >>

\* The handler registered for check_contrast.
checkContrastHandler(args) ==
    [content |-> << [type |-> "text",
                     text |-> << <<"status", "not_implemented">>,
                                 <<"message", "APCA contrast checking will be implemented in issue #2">>,
                                 <<"input", JSONstringifyArgs(args)>> >>] >>]

\* Colours that tool calls are made with.
ToolColours == {BadColour, 0, 45 * Scale, 75 * Scale, MaxLc * Scale}

ToolArgs == [foreground : ToolColours, background : ToolColours,
             fontSize : CallFontSizes, fontWeight : FontWeight,
             useCase : UseCase]

InitTool ==
    /\ server = "created"
    /\ toolInput = NoResult
    /\ request = NoResult
    /\ response = NoResult
    /\ foreground = 0
    /\ background = 0
    /\ options = [fontSize |-> 16, fontWeight |-> "normal",
                  useCase |-> "body-text"]
    /\ pc = "idle"
    /\ result = NoResult
    /\ before = NoResult
    /\ minimum = 0

\* main(): connect the server to the stdio transport.
Main ==
    /\ server = "created"
    /\ server' = "running"
    /\ UNCHANGED <<foreground, background, options, pc, result, before,
                   minimum, toolInput, request, response>>

\* main().catch: connecting failed, the process exits with status 1.
MainFails ==
    /\ server = "created"
    /\ server' = "exited"
    /\ UNCHANGED <<foreground, background, options, pc, result, before,
                   minimum, toolInput, request, response>>

\* What a client sends: the two colours, and any of the optional fields.
ToolInputs ==
    {[k \in {"foreground", "background"} \cup D |-> full[k]] :
        full \in ToolArgs, D \in SUBSET OptionKeys}

\* The input schema applied to what the client sent: foreground and
\* background are any strings; fontSize, fontWeight and useCase are
\* .optional().default(...).
inputSchemaParse(input) ==
    [foreground |-> input.foreground,
     background |-> input.background,
     fontSize   |-> IF "fontSize" \in DOMAIN input THEN input.fontSize ELSE 16,
     fontWeight |-> IF "fontWeight" \in DOMAIN input THEN input.fontWeight
                    ELSE "normal",
     useCase    |-> IF "useCase" \in DOMAIN input THEN input.useCase
                    ELSE "body-text"]

\* A check_contrast call: the input is parsed by the input schema and the
\* handler answers.
ToolCheckContrast ==
    /\ server = "running"
    /\ \E input \in ToolInputs :
          /\ toolInput' = input
          /\ request' = inputSchemaParse(input)
          /\ response' = checkContrastHandler(request')
    /\ UNCHANGED <<foreground, background, options, pc, result, before,
                   minimum, server>>

NextTool == Main \/ MainFails \/ ToolCheckContrast

SpecTool == InitTool /\ [][NextTool]_vars

\* Calls of checkContrast with options left out, and the tool server.
InitDefaultsOrTool == InitDefaults \/ InitTool

NextDefaults == CheckContrast \/ Main \/ MainFails \/ ToolCheckContrast

SpecDefaults == InitDefaultsOrTool /\ [][NextDefaults]_vars

\* ================================================================== claims
Returned == pc = "returned" /\ result.kind = "ok"

\* The unrounded magnitude of the call that produced result.
Magnitude == Abs(calcAPCA(foreground, background))

\* p is d / Scale rounded to an integer (either way on a tie).
IsRounded(p, d) == (2 * p - 1) * Scale <= 2 * d /\ 2 * d <= (2 * p + 1) * Scale

C3_PassesFromReturnedFields ==
    Returned => (result.passes <=> result.lcAbsolute >= 10 * result.minimumLc)

\* C3 (amended): passes is exactly "unrounded magnitude >= minimumLc"; on
\* the returned fields, passes implies lcAbsolute >= minimumLc, and a
\* failing result has lcAbsolute <= minimumLc (equal when the unrounded
\* magnitude is less than 0.05 below the minimum).
C3_PassesFromUnroundedMagnitude ==
    Returned =>
        /\ result.passes <=> Magnitude >= result.minimumLc * Scale
        /\ result.passes => result.lcAbsolute >= 10 * result.minimumLc
        /\ ~result.passes => result.lcAbsolute <= 10 * result.minimumLc

C3_Witness ==
    /\ Returned
    /\ ~result.passes
    /\ result.lcAbsolute = 10 * result.minimumLc
    /\ Magnitude < result.minimumLc * Scale

\* C4: in every returned result, lcAbsolute = abs(lc) on the returned
\* fields, for negative scores on a rounding half too.
C4_AbsoluteOfReturnedScore ==
    Returned => result.lcAbsolute = Abs(result.lc)

\* C5: in every returned result, recommendation is null if and only if
\* passes is true.
C5_RecommendationIffFailing ==
    Returned => (result.recommendation.kind = "null" <=> result.passes)

C5_Witness ==
    /\ Returned
    /\ ~result.passes
    /\ Magnitude >= 45 * Scale
    /\ result.recommendation.kind = "increase"
    /\ result.recommendation.points = 0

\* C6: rating is decided by the (unrounded) magnitude alone: AAA from 90,
\* AA from 75, A from 60, fail below; it never decreases as the magnitude
\* grows, and does not depend on use case, font size, weight or minimumLc.
RatingRank(r) ==
    CASE r = "fail" -> 0 [] r = "A" -> 1 [] r = "AA" -> 2 [] r = "AAA" -> 3

C6_RatingByMagnitude ==
    Returned =>
        /\ result.rating = "AAA" <=> Magnitude >= 90 * Scale
        /\ result.rating = "AA" <=>
               (75 * Scale <= Magnitude /\ Magnitude < 90 * Scale)
        /\ result.rating = "A" <=>
               (60 * Scale <= Magnitude /\ Magnitude < 75 * Scale)
        /\ result.rating = "fail" <=> Magnitude < 60 * Scale
        /\ RatingRank(result.rating) <= RatingRank(getRating(Magnitude + 1))

C6_Witness ==
    /\ Returned
    /\ result.rating = "fail"
    /\ result.passes
    /\ Magnitude = 60 * Scale - 1

\* C7 (as claimed): polarity is dark-on-light iff the returned lc is >= 0
\* and light-on-dark iff the returned lc is negative.
C7_PolarityFromReturnedScore ==
    Returned =>
        /\ result.polarity = "dark-on-light" <=> result.lc >= 0
        /\ result.polarity = "light-on-dark" <=> result.lc < 0

\* C7 (amended): polarity is dark-on-light iff the unrounded score is >= 0
\* (zero included) and light-on-dark iff it is negative; a returned lc
\* above zero means dark-on-light, below zero light-on-dark, and a returned
\* lc of zero comes with either polarity.
C7_PolarityFromUnroundedScore ==
    Returned =>
        /\ result.polarity = "dark-on-light" <=>
               calcAPCA(foreground, background) >= 0
        /\ result.polarity = "light-on-dark" <=>
               calcAPCA(foreground, background) < 0
        /\ result.lc > 0 => result.polarity = "dark-on-light"
        /\ result.lc < 0 => result.polarity = "light-on-dark"

C7_Witness ==
    /\ Returned
    /\ result.lc = 0
    /\ result.polarity = "light-on-dark"

\* C8: a failing result's recommendation is chosen by the (unrounded)
\* magnitude band alone: below 15 the "too low" message with the current
\* magnitude and the minimum for the use case; from 15 and below 45 the
\* "decorative" message with the rounded deficit; from 45 the generic
\* "increase" message with the rounded deficit.
C8_RecommendationByBand ==
    (Returned /\ ~result.passes) =>
        LET rec == result.recommendation
            deficit == result.minimumLc * Scale - Magnitude
        IN  /\ Magnitude < 15 * Scale =>
                   /\ rec.kind = "too-low"
                   /\ rec.need = result.minimumLc
                   /\ rec.useCase = options.useCase
                   /\ IsRounded(rec.current, 10 * Magnitude)
            /\ (15 * Scale <= Magnitude /\ Magnitude < 45 * Scale) =>
                   /\ rec.kind = "decorative"
                   /\ rec.useCase = options.useCase
                   /\ IsRounded(rec.points, deficit)
            /\ Magnitude >= 45 * Scale =>
                   /\ rec.kind = "increase"
                   /\ IsRounded(rec.points, deficit)

C8_Witness ==
    /\ Returned
    /\ ~result.passes
    /\ Magnitude = 15 * Scale
    /\ result.recommendation.kind = "decorative"
    /\ result.recommendation.points = 60

\* C9: exchanging foreground and background negates the returned lc and
\* flips polarity, and leaves lcAbsolute, passes and rating unchanged, for
\* every score, zero and rounding halves included.
C9_SwapNegatesAndFlips ==
    (Returned /\ before.kind = "ok") =>
        /\ result.lc = -before.lc
        /\ result.polarity # before.polarity
        /\ result.lcAbsolute = before.lcAbsolute
        /\ result.passes = before.passes
        /\ result.rating = before.rating

\* C10: a check_contrast tool call with two valid colours returns, as JSON
\* text, the serialized ContrastResult of checkContrast for its arguments.
C10_ToolReturnsContrastResult ==
    (response # NoResult
        /\ ~calcAPCAFails(request.foreground, request.background)) =>
        response.content[1].text =
            JSONstringifyResult(
                checkContrast(request.foreground, request.background,
                    [fontSize |-> request.fontSize,
                     fontWeight |-> request.fontWeight,
                     useCase |-> request.useCase]))

\* The options with fontSize 16, fontWeight normal and useCase body-text
\* written out where a field is left out.
WithDefaults(r) ==
    [fontSize   |-> IF "fontSize" \in DOMAIN r THEN r.fontSize ELSE 16,
     fontWeight |-> IF "fontWeight" \in DOMAIN r THEN r.fontWeight ELSE "normal",
     useCase    |-> IF "useCase" \in DOMAIN r THEN r.useCase ELSE "body-text"]

\* C11: checkContrast with options left out, wholly or per field, returns
\* what it returns with fontSize 16, fontWeight normal and useCase
\* body-text written out, so with everything left out minimumLc is 75; the
\* check_contrast input schema fills in the same three defaults.
C11_DefaultsApplied ==
    /\ Returned =>
          /\ result = checkContrast(foreground, background,
                                    WithDefaults(options))
          /\ DOMAIN options = {} => result.minimumLc = 75
    /\ toolInput # NoResult =>
          /\ request.foreground = toolInput.foreground
          /\ request.background = toolInput.background
          /\ request.fontSize = WithDefaults(toolInput).fontSize
          /\ request.fontWeight = WithDefaults(toolInput).fontWeight
          /\ request.useCase = WithDefaults(toolInput).useCase

C11_Witness ==
    /\ Returned
    /\ DOMAIN options = {}
    /\ result.minimumLc = 75
    /\ result.passes
    /\ Magnitude = 75 * Scale

C13_InvalidEnumRejected ==
    (pc \in {"min-returned", "min-threw"}
        /\ (options.useCase \notin UseCase
              \/ options.fontWeight \notin FontWeight))
    => pc = "min-threw"

\* C14: once the server runs, no check_contrast call ends the process; a
\* call with a malformed colour is answered with a tool-level error
\* response (isError), and the server goes on answering.
C14_MalformedColourIsToolError ==
    toolInput # NoResult =>
        /\ server = "running"
        /\ calcAPCAFails(toolInput.foreground, toolInput.background) =>
              ("isError" \in DOMAIN response /\ response.isError)

C16_LargeBoldBodyText ==
    (pc = "min-returned" /\ options.useCase = "body-text"
        /\ options.fontWeight = "bold" /\ options.fontSize >= 32)
    => minimum = 45

\* C17: rounding to one decimal touches only the returned lc and
\* lcAbsolute.  When the unrounded magnitude is just below a boundary and
\* the returned lcAbsolute shows the boundary value, passes, rating and the
\* recommendation band are those of the value below the boundary.
C17_RoundingIsCosmetic ==
    Returned =>
        /\ IsRounded(result.lcAbsolute, 10 * Magnitude)
        /\ IsRounded(result.lc, 10 * calcAPCA(foreground, background))
        /\ (result.lcAbsolute = 10 * result.minimumLc
               /\ Magnitude < result.minimumLc * Scale)
             => (~result.passes /\ result.recommendation.kind # "null")
        /\ (result.lcAbsolute = 10 * 90 /\ Magnitude < 90 * Scale)
             => result.rating = "AA"
        /\ (result.lcAbsolute = 10 * 75 /\ Magnitude < 75 * Scale)
             => result.rating = "A"
        /\ (result.lcAbsolute = 10 * 60 /\ Magnitude < 60 * Scale)
             => result.rating = "fail"
        /\ (result.lcAbsolute = 10 * 15 /\ Magnitude < 15 * Scale)
             => result.recommendation.kind = "too-low"
        /\ (result.lcAbsolute = 10 * 45 /\ Magnitude < 45 * Scale)
             => result.recommendation.kind = "decorative"

C17_Witness ==
    /\ Returned
    /\ Magnitude = 75 * Scale - 1
    /\ result.minimumLc = 75
    /\ result.lcAbsolute = 10 * 75
    /\ ~result.passes
    /\ result.rating = "A"
    /\ result.recommendation.kind = "increase"

\* C18: whenever a recommendation states a point deficit (a failing result
\* with magnitude >= 15), the unrounded deficit minimumLc - magnitude is
\* above 0 and at most 60, and at most 30 in the generic band (magnitude
\* >= 45); the generic message is produced only with minimumLc 60 or 75,
\* never for non-text, placeholder or disabled.
C18_DeficitBounds ==
    (Returned /\ result.recommendation.kind \in {"decorative", "increase"}) =>
        LET deficit == result.minimumLc * Scale - Magnitude
        IN  /\ ~result.passes
            /\ Magnitude >= 15 * Scale
            /\ deficit > 0
            /\ deficit <= 60 * Scale
            /\ result.recommendation.kind = "increase" =>
                   /\ Magnitude >= 45 * Scale
                   /\ deficit <= 30 * Scale
                   /\ result.minimumLc \in {60, 75}
                   /\ options.useCase \notin
                          {"non-text", "placeholder", "disabled"}

C18_Witness ==
    /\ Returned
    /\ result.recommendation.kind = "increase"
    /\ Magnitude = 45 * Scale
    /\ result.minimumLc = 75
    /\ result.recommendation.points = 30

====
